---- MODULE Spec2Model ----
(***************************************************************************)
(* RedisWQ (mediaire_toolbox/queue/redis_wq.py): a finite work queue kept  *)
(* in a shared Redis store.  Every Redis command is one atomic step; a     *)
(* method of RedisWQ that issues several commands is several steps, and    *)
(* the steps of different workers interleave.                              *)
(*                                                                         *)
(* Lists are sequences whose index 1 is the Redis head (left end).  A list *)
(* entry of the main and processing lists is [val, id]: val is the item's  *)
(* bytes (all Redis sees), id is a history tag naming the put() that       *)
(* created the entry, so that occurrences of equal bytes can be told       *)
(* apart in the properties.  No operation of the model reads id.  The     *)
(* entries of the error list carry a history tag `by` likewise.            *)
(*                                                                         *)
(* Spec        producers and workers side by side                          *)
(* FairSpec    Spec, with live workers that go on and keep leasing         *)
(* FiniteSpec  the queue is filled before the workers start, then no put   *)
(* LimiterSpec the rate limiter alone (modelled from the specification)    *)
(* LeaseLimitSpec  lease() behind the rate limiter (likewise)              *)
(***************************************************************************)
EXTENDS Integers, Sequences, FiniteSets, TLC

\* ------------------------------------------------------------------ bounds
MaxPuts == 2
MaxCrashes == 1
MaxTime == 1
MaxCalls == 3

\* ------------------------------------------------------------ value spaces
\* the worker processes, each with its own RedisWQ object
Workers == {"w1", "w2"}
\* item bytes a producer can put: b'' and b'a'
Values == {<<>>, <<97>>}
\* msg arguments of error(): None (as <<>>) or one text (as <<text>>).
\* Worker w1 calls error(value), worker w2 calls error(value, 'boom'), so
\* that an entry of the error-message list tells which worker pushed it.
MsgOf(w) == IF w = "w1" THEN <<>> ELSE <<"boom">>
\* timeout arguments of lease(): None (as <<>>) or <<seconds>>
Timeouts == {<<>>, <<1>>}
\* limit arguments of the rate limiter: None (as <<>>) or <<N>>
Limits == {<<>>, <<1>>, <<2>>}

\* Python's None where an item is expected (rpoplpush on an empty list)
None == [val |-> <<>>, id |-> 0]
IsNone(item) == item.id = 0
\* absence of a key in the store
NoSession == <<>>

VARIABLES
    main,            \* list  name
    processing,      \* list  name:processing
    errors,          \* list  name:errors
    error_messages,  \* list  name:error_messages
    lease,           \* keys  name:leased_by_session:<itemkey> -> session
    pc,              \* per worker: the command its current call issues next
    alive,           \* per worker: the process has not crashed
    loc,             \* per worker: local variables of its current call
    asserted,        \* history: workers whose error() raised AssertionError
    putLog,          \* history: the bytes put, in put order (index = id)
    leaseLog,        \* history: [id, by] of every pending->processing move
    completed,       \* history: ids of the entries a complete() removed
    stolen,          \* history: [id, by, own] of the entries removed by an lrem of a
                     \*          worker other than the one that leased them
    now,             \* the limiter's clock (_get_timestamp)
    count,           \* limiter counter key of each time bucket (0 = absent)
    armed,           \* history: expire() calls on each bucket's counter key
    calls            \* history: [limit, ok] of the limiter calls per bucket

queueVars == <<main, processing, errors, error_messages, lease>>
workerVars == <<pc, alive, loc, asserted>>
historyVars == <<putLog, leaseLog, completed, stolen>>
limiterVars == <<now, count, armed, calls>>
vars == <<queueVars, workerVars, historyVars, limiterVars>>

Buckets == 0..MaxTime

\* ------------------------------------------------------- Redis primitives
\* (faulty variant: the pushed entry is lost)
LPushLost(list, x) == list
\* (faulty variant: RPUSH, insert at the tail)
LPushTail(list, x) == Append(list, x)
\* LPUSH: insert at the head; the reply is the new length
LPush(list, x) == <<x>> \o list

\* LLEN
LLen(list) == Len(list)

RECURSIVE LRemAll(_, _)
LRemAll(list, v) ==
    IF list = <<>> THEN <<>>
    ELSE IF Head(list).val = v THEN LRemAll(Tail(list), v)
    ELSE <<Head(list)>> \o LRemAll(Tail(list), v)

RECURSIVE LRemFirst(_, _)
\* (faulty variant: LREM key 1 value, remove the first entry equal to value only)
LRemFirst(list, v) ==
    IF list = <<>> THEN <<>>
    ELSE IF Head(list).val = v THEN Tail(list)
    ELSE <<Head(list)>> \o LRemFirst(Tail(list), v)

\* LREM key 0 value: remove every entry equal to value
LRem(list, v) == LRemAll(list, v)

\* the reply of LREM: the number of removed entries
LRemCount(list, v) == Len(list) - Len(LRem(list, v))

\* RPOPLPUSH src dst: the tail of src, or None when src is empty
RPopItem(src) == IF src = <<>> THEN None ELSE src[Len(src)]
\* (faulty variant: the read and the removal are two commands, the removal lost)
RPopRestKeep(src) == src
RPopRest(src) == IF src = <<>> THEN <<>> ELSE SubSeq(src, 1, Len(src) - 1)

\* SETEX key secs value
SetEx(keys, k, v) == [keys EXCEPT ![k] = v]

\* (faulty variant: the DEL names another key and deletes nothing)
DeleteNothing(keys, k) == keys
\* DEL key
Delete(keys, k) == [keys EXCEPT ![k] = NoSession]

\* ---------------------------------------------------------------- RedisWQ
\* _itemkey: the sha224 hex digest of the bytes
ItemKey(v) == <<"sha224", v>>
Keys == {ItemKey(v) : v \in Values}

\* self._session: one uuid4 per RedisWQ object
Session(w) == <<"uuid4", w>>

\* `if item:` -- None and b'' are both false
Truthy(item) == ~IsNone(item) /\ Len(item.val) > 0

\* msg defaults to 'unknown error'; the pushed entry is msg.encode('utf-8')
MsgBytes(m) == IF m = <<>> THEN <<"utf-8", "unknown error">> ELSE <<"utf-8", m[1]>>

\* value, msg: the arguments; item: the popped entry; len: len_errors;
\* limit: lease()'s limit argument; charged (history): the call's last
\* limiter check incremented the counter; sleeps (history): the time.sleep
\* calls of the call
NoLoc == [value |-> <<>>, msg |-> <<>>, item |-> None, len |-> 0,
          limit |-> <<>>, charged |-> FALSE, sleeps |-> 0]

Init ==
    /\ main = <<>>
    /\ processing = <<>>
    /\ errors = <<>>
    /\ error_messages = <<>>
    /\ lease = [k \in Keys |-> NoSession]
    /\ pc = [w \in Workers |-> "idle"]
    /\ alive = [w \in Workers |-> TRUE]
    /\ loc = [w \in Workers |-> NoLoc]
    /\ asserted = {}
    /\ putLog = <<>>
    /\ leaseLog = <<>>
    /\ completed = {}
    /\ stolen = {}
    /\ now = 0
    /\ count = [b \in Buckets |-> 0]
    /\ armed = [b \in Buckets |-> 0]
    /\ calls = [b \in Buckets |-> <<>>]

\* put(item): one LPUSH on the main list
Put(v) ==
    /\ Len(putLog) < MaxPuts
    /\ main' = LPush(main, [val |-> v, id |-> Len(putLog) + 1])
    /\ putLog' = Append(putLog, v)
    /\ UNCHANGED <<processing, errors, error_messages, lease, workerVars,
                   leaseLog, completed, stolen, limiterVars>>

\* lease(), first command: BRPOPLPUSH / RPOPLPUSH main -> processing.
\* BRPOPLPUSH with timeout None on an empty list does not reply: the step
\* is not enabled.  Otherwise an empty list replies None, and lease()
\* returns it without another command.
LeaseMove(w, at, block, timeout) ==
    /\ alive[w] /\ pc[w] = at
    /\ ~(main = <<>> /\ block /\ timeout = <<>>)
    /\ LET item == RPopItem(main) IN
         /\ main' = RPopRest(main)
         /\ processing' = IF IsNone(item) THEN processing
                          ELSE LPush(processing, item)
         /\ leaseLog' = IF IsNone(item) THEN leaseLog
                        ELSE Append(leaseLog, [id |-> item.id, by |-> w])
         /\ IF Truthy(item)
            THEN /\ pc' = [pc EXCEPT ![w] = "lease_setex"]
                 /\ loc' = [loc EXCEPT ![w] =
                               [NoLoc EXCEPT !.item = item,
                                             !.sleeps = loc[w].sleeps]]
            ELSE /\ pc' = [pc EXCEPT ![w] = "idle"]
                 /\ loc' = [loc EXCEPT ![w] = NoLoc]
    /\ UNCHANGED <<errors, error_messages, lease, alive, asserted, putLog,
                   completed, stolen, limiterVars>>

\* lease() without a limit: the first command is issued at once
LeasePop(w, block, timeout) == LeaseMove(w, "idle", block, timeout)

\* lease(), second command: SETEX of the lease key, then `return item`
LeaseSetex(w) ==
    /\ alive[w] /\ pc[w] = "lease_setex"
    /\ lease' = SetEx(lease, ItemKey(loc[w].item.val), Session(w))
    /\ pc' = [pc EXCEPT ![w] = "idle"]
    /\ loc' = [loc EXCEPT ![w] = NoLoc]
    /\ UNCHANGED <<main, processing, errors, error_messages, alive, asserted,
                   historyVars, limiterVars>>

\* history: the worker whose lease() moved entry id to the processing list
Holder(id) ==
    LET e == CHOOSE e \in {leaseLog[i] : i \in 1..Len(leaseLog)} : e.id = id
    IN  e.by

\* history: the ids of the entries of list whose bytes are v
Removed(list, v) == {list[i].id : i \in {j \in 1..Len(list) : list[j].val = v}}

\* history: those of them that worker w did not lease itself; own tells
\* whether the same LREM also removed an entry that w did lease
Stolen(list, v, w) ==
    {[id |-> i, by |-> w, own |-> (\E k \in Removed(list, v) : Holder(k) = w)] :
        i \in {j \in Removed(list, v) : Holder(j) # w}}

\* (faulty variant: the test is inverted)
ErrorNotFoundInverted(exit_code) == exit_code # 0
\* (faulty variant: the reply of LREM is not looked at)
ErrorNotFoundNever(exit_code) == FALSE
\* `if exit_code == 0:` -- the value was not in the processing list
ErrorNotFound(exit_code) == exit_code = 0

\* error(value, msg), first command: LREM processing 0 value
ErrorLrem(w, v) ==
    /\ alive[w] /\ pc[w] = "idle"
    /\ processing' = LRem(processing, v)
    /\ stolen' = stolen \cup Stolen(processing, v, w)
    /\ IF ErrorNotFound(LRemCount(processing, v))
       THEN UNCHANGED <<pc, loc>>
       ELSE /\ pc' = [pc EXCEPT ![w] = "error_lpush_errors"]
            /\ loc' = [loc EXCEPT ![w] =
                          [NoLoc EXCEPT !.value = v, !.msg = MsgOf(w)]]
    /\ UNCHANGED <<main, errors, error_messages, lease, alive, asserted,
                   putLog, leaseLog, completed, limiterVars>>

\* (faulty variant: error() releases the lease of the value it moves)
ErrorLpushErrorsReleases(w) ==
    /\ alive[w] /\ pc[w] = "error_lpush_errors"
    /\ errors' = LPush(errors, [val |-> loc[w].value, by |-> w])
    /\ lease' = Delete(lease, ItemKey(loc[w].value))
    /\ loc' = [loc EXCEPT ![w].len = LLen(errors')]
    /\ pc' = [pc EXCEPT ![w] = "error_lpush_msgs"]
    /\ UNCHANGED <<main, processing, error_messages, alive, asserted,
                   historyVars, limiterVars>>

\* error(), second command: len_errors = LPUSH errors value
ErrorLpushErrors(w) ==
    /\ alive[w] /\ pc[w] = "error_lpush_errors"
    /\ errors' = LPush(errors, [val |-> loc[w].value, by |-> w])
    /\ loc' = [loc EXCEPT ![w].len = LLen(errors')]
    /\ pc' = [pc EXCEPT ![w] = "error_lpush_msgs"]
    /\ UNCHANGED <<main, processing, error_messages, lease, alive, asserted,
                   historyVars, limiterVars>>

\* `assert len_errors == len_msgs`
AssertHolds(len_errors, len_msgs) == len_errors = len_msgs

\* error(), third command: len_msgs = LPUSH error_messages msg, then the
\* assertion, which raises AssertionError after both pushes are done
ErrorLpushMsgs(w) ==
    /\ alive[w] /\ pc[w] = "error_lpush_msgs"
    /\ error_messages' = LPush(error_messages,
                               [msg |-> MsgBytes(loc[w].msg)])
    /\ asserted' = IF AssertHolds(loc[w].len, LLen(error_messages'))
                   THEN asserted ELSE asserted \cup {w}
    /\ pc' = [pc EXCEPT ![w] = "idle"]
    /\ loc' = [loc EXCEPT ![w] = NoLoc]
    /\ UNCHANGED <<main, processing, errors, lease, alive, historyVars,
                   limiterVars>>

\* complete(value), first command: LREM processing 0 value
CompleteLrem(w, v) ==
    /\ alive[w] /\ pc[w] = "idle"
    /\ processing' = LRem(processing, v)
    /\ completed' = completed \cup Removed(processing, v)
    /\ stolen' = stolen \cup Stolen(processing, v, w)
    /\ pc' = [pc EXCEPT ![w] = "complete_delete"]
    /\ loc' = [loc EXCEPT ![w] = [NoLoc EXCEPT !.value = v]]
    /\ UNCHANGED <<main, errors, error_messages, lease, alive, asserted,
                   putLog, leaseLog, limiterVars>>

\* (faulty variant: the lease key is deleted only when this session owns it)
CompleteDeleteOwned(w) ==
    /\ alive[w] /\ pc[w] = "complete_delete"
    /\ lease' = IF lease[ItemKey(loc[w].value)] = Session(w)
                THEN Delete(lease, ItemKey(loc[w].value)) ELSE lease
    /\ pc' = [pc EXCEPT ![w] = "idle"]
    /\ loc' = [loc EXCEPT ![w] = NoLoc]
    /\ UNCHANGED <<main, processing, errors, error_messages, alive, asserted,
                   historyVars, limiterVars>>

\* complete(), second command: DEL <lease key> <session>.  No key is ever
\* named by a bare session id, so only the lease key can go.
CompleteDelete(w) ==
    /\ alive[w] /\ pc[w] = "complete_delete"
    /\ lease' = Delete(lease, ItemKey(loc[w].value))
    /\ pc' = [pc EXCEPT ![w] = "idle"]
    /\ loc' = [loc EXCEPT ![w] = NoLoc]
    /\ UNCHANGED <<main, processing, errors, error_messages, alive, asserted,
                   historyVars, limiterVars>>

\* (faulty variant: empty() looks at the processing list only)
MainIsEmptyWrongList == LLen(processing) = 0
\* _main_qsize() == 0
MainIsEmpty == LLen(main) = 0
\* (faulty variant: empty() does not read the processing list)
ProcessingIsEmptyUnread == TRUE
\* _processing_qsize() == 0
ProcessingIsEmpty == LLen(processing) = 0

\* empty(), left operand of `and`: LLEN main.  A non-zero length returns
\* False without reading the processing list.
EmptyFirst(w) ==
    /\ alive[w] /\ pc[w] = "idle"
    /\ IF MainIsEmpty
       THEN pc' = [pc EXCEPT ![w] = "empty_second"]
       ELSE UNCHANGED pc
    /\ UNCHANGED <<queueVars, alive, loc, asserted, historyVars, limiterVars>>

\* empty(), right operand of `and`: LLEN processing; the call returns
\* True exactly when this length is zero too
EmptySecond(w) ==
    /\ alive[w] /\ pc[w] = "empty_second"
    /\ pc' = [pc EXCEPT ![w] = "idle"]
    /\ UNCHANGED <<queueVars, alive, loc, asserted, historyVars, limiterVars>>

\* a lease key reaches its lease_secs and Redis drops it
ExpireLease(k) ==
    /\ lease[k] # NoSession
    /\ lease' = Delete(lease, k)
    /\ UNCHANGED <<main, processing, errors, error_messages, workerVars,
                   historyVars, limiterVars>>

\* history: worker w leased an entry that is still in the processing list
Holds(w) ==
    \E i \in 1..Len(processing) :
        \E j \in 1..Len(leaseLog) :
            leaseLog[j].id = processing[i].id /\ leaseLog[j].by = w

\* a worker process dies between two commands of a call, or while it works
\* on a leased item.  (A process that dies with nothing in hand leaves no
\* trace in the store: it is a worker that makes no further call.)
Crash(w) ==
    /\ alive[w]
    /\ pc[w] # "idle" \/ Holds(w)
    /\ Cardinality({u \in Workers : ~alive[u]}) < MaxCrashes
    /\ alive' = [alive EXCEPT ![w] = FALSE]
    /\ UNCHANGED <<queueVars, pc, loc, asserted, historyVars, limiterVars>>

\* what the workers and the store do, without the producers
Work ==
    \/ \E w \in Workers, block \in BOOLEAN, timeout \in Timeouts :
          LeasePop(w, block, timeout)
    \/ \E w \in Workers : LeaseSetex(w)
    \/ \E w \in Workers, v \in Values : ErrorLrem(w, v)
    \/ \E w \in Workers : ErrorLpushErrors(w)
    \/ \E w \in Workers : ErrorLpushMsgs(w)
    \/ \E w \in Workers, v \in Values : CompleteLrem(w, v)
    \/ \E w \in Workers : CompleteDelete(w)
    \/ \E w \in Workers : EmptyFirst(w)
    \/ \E w \in Workers : EmptySecond(w)
    \/ \E k \in Keys : ExpireLease(k)
    \/ \E w \in Workers : Crash(w)

Next ==
    \/ \E v \in Values : Put(v)
    \/ Work

\* producers and workers run side by side
Spec == Init /\ [][Next]_vars

\* the next command of the call that worker w is in
Continue(w) ==
    \/ LeaseSetex(w)
    \/ ErrorLpushErrors(w)
    \/ ErrorLpushMsgs(w)
    \/ CompleteDelete(w)
    \/ EmptySecond(w)

\* a worker's call of lease()
CallLease(w) ==
    \E block \in BOOLEAN, timeout \in Timeouts : LeasePop(w, block, timeout)

\* Spec, where every process that has not crashed goes on with the call it
\* is in and calls lease() again and again
FairSpec ==
    /\ Spec
    /\ \A w \in Workers : WF_vars(Continue(w)) /\ SF_vars(CallLease(w))

\* the finite queue of the class docstring: the producers have put their
\* items and stopped before the workers start
InitFinite ==
    /\ \E n \in 0..MaxPuts : putLog \in [1..n -> Values]
    /\ main = [i \in 1..Len(putLog) |->
                  [val |-> putLog[Len(putLog) + 1 - i], id |-> Len(putLog) + 1 - i]]
    /\ processing = <<>>
    /\ errors = <<>>
    /\ error_messages = <<>>
    /\ lease = [k \in Keys |-> NoSession]
    /\ pc = [w \in Workers |-> "idle"]
    /\ alive = [w \in Workers |-> TRUE]
    /\ loc = [w \in Workers |-> NoLoc]
    /\ asserted = {}
    /\ leaseLog = <<>>
    /\ completed = {}
    /\ stolen = {}
    /\ now = 0
    /\ count = [b \in Buckets |-> 0]
    /\ armed = [b \in Buckets |-> 0]
    /\ calls = [b \in Buckets |-> <<>>]

NextFinite == Work

FiniteSpec == InitFinite /\ [][NextFinite]_vars

\* ------------------------------------------------------------ rate limiter
\* _limit_rate and _get_timestamp are called by the tests but are not part
\* of redis_wq.py as given; they are modelled from section 4.2 of the
\* specification and from the MockRedis the tests run them against.

\* (faulty variant: one counter key for all buckets)
LimitKeyShared(t) == 0
\* the counter key of the time bucket that _get_timestamp() names
LimitKey(t) == t

\* (faulty variant: off by one)
LimitPermitsOneMore(issued, limit) == issued <= limit
\* a call is permitted while fewer than limit leases were issued in the
\* bucket
LimitPermits(issued, limit) == issued < limit

\* the expiry is armed by the call that is the first of a fresh bucket
LimitArms(issued) == issued = 1

\* the value _limit_rate(limit) returns in the current state
LimitOk(limit) ==
    limit = <<>> \/ LimitPermits(count[LimitKey(now)], limit[1])

\* (faulty variant: a permitted call leaves the counter as it was)
LimitStepFree(limit) ==
    IF limit = <<>>
    THEN UNCHANGED limiterVars
    ELSE /\ Len(calls[now]) < MaxCalls
         /\ calls' = [calls EXCEPT ![now] =
                         Append(@, [limit |-> limit[1], ok |-> LimitOk(limit)])]
         /\ UNCHANGED <<now, count, armed>>

\* what _limit_rate(limit) does to the store: one pipeline, executed
\* atomically.  limit None permits and touches no state.
LimitStep(limit) ==
    IF limit = <<>>
    THEN UNCHANGED limiterVars
    ELSE LET key == LimitKey(now)
             ok  == LimitOk(limit)
             new == IF ok THEN count[key] + 1 ELSE count[key]
         IN  /\ Len(calls[now]) < MaxCalls
             /\ count' = [count EXCEPT ![key] = new]
             /\ armed' = IF ok /\ LimitArms(new)
                         THEN [armed EXCEPT ![key] = @ + 1] ELSE armed
             /\ calls' = [calls EXCEPT ![now] =
                             Append(@, [limit |-> limit[1], ok |-> ok])]
             /\ now' = now

\* _limit_rate(limit), called on its own
LimitRate(limit) ==
    /\ LimitStep(limit)
    /\ UNCHANGED <<queueVars, workerVars, historyVars>>

\* the clock reaches the next time bucket
Tick ==
    /\ now < MaxTime
    /\ now' = now + 1
    /\ UNCHANGED <<count, armed, calls, queueVars, workerVars, historyVars>>

\* the counter key of a past bucket reaches its expiry and Redis drops it
ExpireCounter(b) ==
    /\ b < now
    /\ count[LimitKey(b)] > 0
    /\ count' = [count EXCEPT ![LimitKey(b)] = 0]
    /\ UNCHANGED <<now, armed, calls, queueVars, workerVars, historyVars>>

NextLimiter ==
    \/ \E limit \in Limits : LimitRate(limit)
    \/ Tick
    \/ \E b \in Buckets : ExpireCounter(b)

LimiterSpec == Init /\ [][NextLimiter]_vars

\* -------------------------------------------------- lease() with a limit
\* lease(limit=N) is called by the tests but redis_wq.py as given has no
\* such argument; the steps below are modelled from section 4.1 step 1 and
\* section 4.2 of the specification and from test_lease.

\* (faulty variant: a denied call gives up and returns None)
LeaseAfterCheckGiveUp(ok) == IF ok THEN "lease_pop" ELSE "idle"
\* where lease() goes after a limiter check: on to the pop, or to sleep
LeaseAfterCheck(ok) == IF ok THEN "lease_pop" ELSE "lease_sleep"

\* the consumers of one queue are configured with one limit: the limit of
\* a call is that of the limiter calls made so far
SameLimit(limit) ==
    \A b \in Buckets : \A i \in 1..Len(calls[b]) : calls[b][i].limit = limit[1]

\* lease(limit=N), first step: the limiter check
LeaseLimit(w, limit) ==
    /\ alive[w] /\ pc[w] = "idle"
    /\ limit # <<>> /\ SameLimit(limit)
    /\ LimitStep(limit)
    /\ pc' = [pc EXCEPT ![w] = LeaseAfterCheck(LimitOk(limit))]
    /\ loc' = [loc EXCEPT ![w] =
                  IF pc'[w] = "idle" THEN NoLoc
                  ELSE [NoLoc EXCEPT !.limit = limit,
                                     !.charged = count' # count]]
    /\ UNCHANGED <<queueVars, alive, asserted, historyVars>>

\* the denied call sleeps; time.sleep returns
LeaseSleep(w) ==
    /\ alive[w] /\ pc[w] = "lease_sleep"
    /\ pc' = [pc EXCEPT ![w] = "lease_retry"]
    /\ loc' = [loc EXCEPT ![w].sleeps = @ + 1]
    /\ UNCHANGED <<queueVars, alive, asserted, historyVars, limiterVars>>

\* and checks the limiter again
LeaseRetry(w) ==
    /\ alive[w] /\ pc[w] = "lease_retry"
    /\ LimitStep(loc[w].limit)
    /\ pc' = [pc EXCEPT ![w] = LeaseAfterCheck(LimitOk(loc[w].limit))]
    /\ loc' = [loc EXCEPT ![w] =
                  IF pc'[w] = "idle" THEN NoLoc
                  ELSE [@ EXCEPT !.charged = count' # count]]
    /\ UNCHANGED <<queueVars, alive, asserted, historyVars>>

\* the permitted call issues the first command of lease()
LeaseLimitPop(w, block, timeout) == LeaseMove(w, "lease_pop", block, timeout)

NextLease ==
    \/ \E w \in Workers, block \in BOOLEAN, timeout \in Timeouts :
          LeasePop(w, block, timeout)
    \/ \E w \in Workers, limit \in Limits : LeaseLimit(w, limit)
    \/ \E w \in Workers : LeaseSleep(w)
    \/ \E w \in Workers : LeaseRetry(w)
    \/ \E w \in Workers, block \in BOOLEAN, timeout \in Timeouts :
          LeaseLimitPop(w, block, timeout)
    \/ \E w \in Workers : LeaseSetex(w)
    \/ Tick

\* the items are pending; the workers lease them, with and without a limit
\* (the counter keys that expire are those of past buckets, which no check
\* reads again)
LeaseLimitSpec == InitFinite /\ [][NextLease]_vars

\* ================================================================== claims
\* history: the ids of the entries of a list
Ids(list) == {list[i].id : i \in 1..Len(list)}
\* history: no entry occurs twice in a list
NoDup(list) == \A i, j \in 1..Len(list) : list[i].id = list[j].id => i = j
Leased == {leaseLog[i].id : i \in 1..Len(leaseLog)}

(***************************************************************************)
(* C1: lease() moves an item from the pending list to the processing list  *)
(* in one atomic step: under any interleaving of lease() calls, every put  *)
(* item instance is in at most one of the two lists (and there at most     *)
(* once), and no instance is handed out by two lease() calls.              *)
(***************************************************************************)
C1_LeaseMovesAtomically ==
    /\ Ids(main) \cap Ids(processing) = {}
    /\ NoDup(main) /\ NoDup(processing)
    /\ \A i, j \in 1..Len(leaseLog) : leaseLog[i].id = leaseLog[j].id => i = j

\* two workers are inside lease() at once, each with an item of its own
C1_Witness ==
    /\ \A w \in Workers : pc[w] = "lease_setex"
    /\ Len(leaseLog) = 2 /\ leaseLog[1].by # leaseLog[2].by

(***************************************************************************)
(* C8: lease returns exactly the bytes that were put, and successive       *)
(* leases return the items in the order in which they were put: the k-th   *)
(* pending->processing move takes the k-th item put, with its bytes.       *)
(***************************************************************************)
C8_LeaseReturnsPutOrder ==
    /\ \A k \in 1..Len(leaseLog) : leaseLog[k].id = k
    /\ \A i \in 1..Len(processing) :
          processing[i].val = putLog[processing[i].id]
    /\ \A w \in Workers :
          pc[w] = "lease_setex" => loc[w].item.val = putLog[loc[w].item.id]

\* two items of different bytes were put and both were leased
C8_Witness ==
    /\ Len(putLog) = 2 /\ putLog[1] # putLog[2]
    /\ Len(leaseLog) = 2 /\ main = <<>>

\* history: the entries of bytes v that worker w leased
Own(w, v) == {id \in Leased : Holder(id) = w /\ putLog[id] = v}
\* the bytes v occur in a list
Has(list, v) == \E i \in 1..Len(list) : list[i].val = v

(***************************************************************************)
(* C3: when a worker's complete(item) returns after the worker leased      *)
(* item, the occurrence it leased is not in the processing list and no     *)
(* lease key exists for the item's content hash; if it was the only item   *)
(* ever put, both lists are empty, so that empty() returns True.           *)
(***************************************************************************)
C3_CompleteClears ==
    [][\A w \in Workers :
          (/\ pc[w] = "complete_delete" /\ pc'[w] = "idle"
           /\ Own(w, loc[w].value) # {})
          => /\ Ids(processing') \cap Own(w, loc[w].value) = {}
             /\ lease'[ItemKey(loc[w].value)] = NoSession
             /\ (Len(putLog') = 1 => MainIsEmpty' /\ ProcessingIsEmpty')]_vars

\* the one item put was leased and completed by w1, whose call is over
C3_Witness ==
    /\ putLog = << <<97>> >> /\ leaseLog = <<[id |-> 1, by |-> "w1"]>>
    /\ completed = {1} /\ stolen = {} /\ pc["w1"] = "idle"
    /\ main = <<>> /\ processing = <<>> /\ lease[ItemKey(<<97>>)] = NoSession

\* a worker is inside error(), between its LREM and its last LPUSH
InError(w) == pc[w] \in {"error_lpush_errors", "error_lpush_msgs"}

(***************************************************************************)
(* C4: error(item, msg) on an item in the processing list removes it from  *)
(* that list and adds one entry to the error list and one to the           *)
(* error-message list; whenever no error() call is under way, the two      *)
(* lists have equal length.                                                *)
(***************************************************************************)
C4_ErrorMovesToErrorLists ==
    [][\A w \in Workers :
          /\ \A v \in Values :
                (ErrorLrem(w, v) /\ Has(processing, v))
                => (pc'[w] = "error_lpush_errors" /\ ~Has(processing', v))
          /\ (pc[w] = "error_lpush_errors" /\ pc'[w] = "error_lpush_msgs")
             => /\ Len(errors') = Len(errors) + 1
                /\ errors'[1].val = loc[w].value
                /\ error_messages' = error_messages
          /\ (pc[w] = "error_lpush_msgs" /\ pc'[w] = "idle")
             => /\ Len(error_messages') = Len(error_messages) + 1
                /\ error_messages'[1].msg = MsgBytes(MsgOf(w))
                /\ errors' = errors
          /\ (\A u \in Workers : ~InError(u))'
             => Len(errors') = Len(error_messages')]_vars

\* two error() calls have run to their end
C4_Witness ==
    /\ Len(errors) = 2 /\ Len(error_messages) = 2
    /\ \A w \in Workers : pc[w] = "idle"

(***************************************************************************)
(* C5: error(item) on an item that is not in the processing list is a      *)
(* no-op: the call returns at once without raising, and the pending,       *)
(* processing, error and error-message lists and all lease keys are        *)
(* unchanged.                                                              *)
(***************************************************************************)
C5_ErrorOnAbsentIsNoOp ==
    [][\A w \in Workers, v \in Values :
          (ErrorLrem(w, v) /\ ~Has(processing, v))
          => /\ UNCHANGED <<main, processing, errors, error_messages, lease>>
             /\ UNCHANGED asserted
             /\ pc'[w] = "idle"]_vars

\* an idle worker and an item that was errored already: error() on it now
\* finds nothing, and the state after that call is this state again
C5_Witness ==
    /\ errors # <<>> /\ ~Has(processing, errors[1].val)
    /\ \E w \in Workers : alive[w] /\ pc[w] = "idle"
    /\ lease[ItemKey(errors[1].val)] # NoSession

(***************************************************************************)
(* C6 (FiniteSpec: nothing is put once the workers run): whenever empty()  *)
(* returns True to a worker, under any interleaving with the other         *)
(* workers' calls, the pending and the processing list are both empty at   *)
(* that moment, and they stay empty from then on.                          *)
(***************************************************************************)
C6_EmptyMeansFinished ==
    [][/\ \A w \in Workers :
             (pc[w] = "empty_second" /\ pc'[w] = "idle" /\ ProcessingIsEmpty)
             => (main' = <<>> /\ processing' = <<>>)
       /\ (main = <<>> /\ processing = <<>>)
          => (main' = <<>> /\ processing' = <<>>)]_vars

\* two items were worked off, and a worker's empty() is about to read the
\* second zero length
C6_Witness ==
    /\ Len(putLog) = 2 /\ Len(leaseLog) = 2
    /\ main = <<>> /\ processing = <<>>
    /\ \E w \in Workers : alive[w] /\ pc[w] = "empty_second"

\* history: entries that a complete() or error() of another worker removed
\* together with that worker's own occurrence of the same bytes
DupStolen == {s \in stolen : s.own}

\* C7 as stated: of two leased occurrences of the same bytes, a worker's
\* complete(item) or error(item) removes only its own.
C7_AsStated == DupStolen = {}

(***************************************************************************)
(* C7 (amended): the LREM of complete(item) and of error(item) removes     *)
(* every occurrence of the item's bytes from the processing list, those    *)
(* leased by other workers included, and the DEL of complete(item) leaves  *)
(* no lease key for those bytes.                                           *)
(***************************************************************************)
C7_RemovesEveryOccurrence ==
    [][\A w \in Workers :
          /\ (pc[w] = "idle"
              /\ pc'[w] \in {"complete_delete", "error_lpush_errors"})
             => ~Has(processing', loc'[w].value)
          /\ (pc[w] = "complete_delete" /\ pc'[w] = "idle")
             => \A u \in Workers :
                   lease'[ItemKey(loc[w].value)] # Session(u)]_vars

\* a worker's call removed its own occurrence and another worker's
C7_Witness == DupStolen # {}

\* history: entry id is in the processing list, and the worker that leased
\* it has crashed or its lease() is over and no lease key is left
Abandoned(id) ==
    /\ id \in Ids(processing)
    /\ \/ ~alive[Holder(id)]
       \/ /\ lease[ItemKey(putLog[id])] = NoSession
          /\ pc[Holder(id)] # "lease_setex"

\* history: how often entry id was moved from pending to processing
LeasedTimes(id) == Cardinality({i \in 1..Len(leaseLog) : leaseLog[i].id = id})

\* C2 as stated (FairSpec): every item put is eventually leased, and an
\* item whose holder crashed or whose lease expired before complete() or
\* error() was called is eventually leased again.
C2_AtLeastOnce ==
    /\ \A id \in 1..MaxPuts : (id \in Ids(main)) ~> (id \in Leased)
    /\ \A id \in 1..MaxPuts :
          Abandoned(id) ~> (LeasedTimes(id) > 1 \/ id \notin Ids(processing))

\* history: the limiter calls of bucket b all had limit n
AllWithLimit(b, n) == \A k \in 1..Len(calls[b]) : calls[b][k].limit = n

(***************************************************************************)
(* C9 (LimiterSpec): for every limit N, of the limiter calls with limit N  *)
(* within one time bucket the first N are permitted and every later one is *)
(* denied, and the expiry of the bucket's counter key is armed exactly     *)
(* once.                                                                   *)
(***************************************************************************)
C9_LimitPerBucket ==
    \A b \in Buckets : \A n \in {l[1] : l \in Limits \ {<<>>}} :
        (calls[b] # <<>> /\ AllWithLimit(b, n))
        => /\ \A k \in 1..Len(calls[b]) : calls[b][k].ok <=> (k <= n)
           /\ armed[b] = 1

\* N + 1 calls with limit N = 2 were made in one bucket
C9_Witness ==
    \E b \in Buckets : Len(calls[b]) = 3 /\ AllWithLimit(b, 2)

(***************************************************************************)
(* C10 (LimiterSpec): the counter starts afresh in every time bucket: a    *)
(* call with limit 1 in one bucket and a call with limit 1 in the next     *)
(* bucket are both permitted, and each of the two buckets has its own      *)
(* expiry armed.                                                           *)
(***************************************************************************)
C10_LimitResetsPerBucket ==
    \A b \in Buckets :
        (b + 1 \in Buckets /\ calls[b] # <<>> /\ calls[b + 1] # <<>>
         /\ calls[b][1].limit = 1 /\ calls[b + 1][1].limit = 1)
        => /\ calls[b][1].ok /\ calls[b + 1][1].ok
           /\ armed[b] = 1 /\ armed[b + 1] = 1

\* limit 1 was used up in one bucket, and a call was made in the next while
\* the first bucket's counter key had not expired yet
C10_Witness ==
    \E b \in Buckets :
        /\ b + 1 \in Buckets /\ calls[b] # <<>> /\ calls[b + 1] # <<>>
        /\ calls[b][1].limit = 1 /\ calls[b + 1][1].limit = 1
        /\ count[LimitKey(b)] = 1

\* history: this step recorded a limiter check with outcome ok
Checked(ok) ==
    /\ Len(calls'[now]) = Len(calls[now]) + 1
    /\ calls'[now][Len(calls'[now])].ok = ok

(***************************************************************************)
(* C11: a lease(limit=N) call that the limiter denies does not return: it  *)
(* takes nothing, sleeps once per denial and checks the limiter again; it  *)
(* goes on to the pop only from a permitted check, a check in a fresh      *)
(* bucket is permitted, and the pop then takes the oldest pending item.    *)
(* A lease() call returns only from its pop or after its SETEX.            *)
(***************************************************************************)
C11_DeniedLeaseSleepsAndRetries ==
    [][/\ Checked(FALSE) =>
            /\ \E w \in Workers : /\ pc[w] \in {"idle", "lease_retry"}
                                  /\ pc'[w] = "lease_sleep"
            /\ main' = main /\ processing' = processing /\ count' = count
       /\ \A w \in Workers :
            /\ pc[w] = "lease_sleep" /\ pc'[w] # pc[w] =>
                  /\ pc'[w] = "lease_retry"
                  /\ loc'[w].sleeps = loc[w].sleeps + 1
            /\ pc[w] = "lease_retry" /\ pc'[w] # pc[w] =>
                  /\ loc'[w].sleeps = loc[w].sleeps
                  /\ count[LimitKey(now)] = 0 => pc'[w] = "lease_pop"
            /\ pc[w] # "lease_pop" /\ pc'[w] = "lease_pop" =>
                  /\ pc[w] \in {"idle", "lease_retry"}
                  /\ Checked(TRUE)
            /\ pc[w] = "lease_pop" /\ pc'[w] # pc[w] /\ main # <<>> =>
                  /\ leaseLog' = Append(leaseLog,
                                        [id |-> Len(leaseLog) + 1, by |-> w])
                  /\ processing'[1].id = Len(leaseLog) + 1
            /\ pc[w] # "idle" /\ pc'[w] = "idle" =>
                  pc[w] \in {"lease_pop", "lease_setex"}]_vars

\* test_lease: two items pending, limit 1; the worker's second lease is
\* denied in the bucket of its first, sleeps once, is permitted in the next
\* bucket and holds the second item
C11_Witness ==
    /\ Len(putLog) = 2
    /\ calls[0] = <<[limit |-> 1, ok |-> TRUE], [limit |-> 1, ok |-> FALSE]>>
    /\ calls[1] = <<[limit |-> 1, ok |-> TRUE]>>
    /\ leaseLog = <<[id |-> 1, by |-> "w1"], [id |-> 2, by |-> "w1"]>>
    /\ pc["w1"] = "lease_setex" /\ pc["w2"] = "idle"
    /\ loc["w1"].sleeps = 1 /\ loc["w1"].item.id = 2

\* worker w's lease(limit=N) finds the pending list empty and returns None
EmptyLeaseReturns(w) ==
    pc[w] = "lease_pop" /\ main = <<>> /\ pc'[w] # pc[w]

ReturnedItem(w) ==
    IF pc[w] = "lease_setex" /\ pc'[w] = "idle" THEN loc[w].item
    ELSE IF /\ Len(leaseLog') > Len(leaseLog)
            /\ leaseLog'[Len(leaseLog')].by = w
            /\ pc'[w] = "idle"
         THEN processing'[1]
         ELSE None

(***************************************************************************)
(* C13: when lease() returns an item to a worker, the item is in the       *)
(* processing list and the lease key of its content hash holds the         *)
(* worker's session; and a lease key that exists changes only by being     *)
(* removed, by its expiry or by the DEL of a complete() for its item.      *)
(***************************************************************************)
C13_LeaseKeyHeld ==
    [][/\ \A w \in Workers :
            LET item == ReturnedItem(w) IN
               ~IsNone(item) =>
                  /\ item.id \in Ids(processing')
                  /\ lease'[ItemKey(item.val)] = Session(w)
       /\ \A k \in Keys :
            lease[k] # NoSession /\ lease'[k] # lease[k] =>
               /\ lease'[k] = NoSession
               /\ \/ pc' = pc
                  \/ \E w \in Workers : /\ pc[w] = "complete_delete"
                                        /\ ItemKey(loc[w].value) = k]_vars

(***************************************************************************)
(* C14: the DEL of complete(item) removes the lease key of the item's      *)
(* content hash whoever owns it, a key held by another worker's session    *)
(* included; the step returns from complete() without an exception and     *)
(* changes nothing the other workers could notice it by (their position    *)
(* and locals, and every other key, are as before).                        *)
(***************************************************************************)
C14_CompleteDeletesForeignLease ==
    [][\A w \in Workers :
          pc[w] = "complete_delete" /\ pc'[w] # pc[w] =>
             LET k == ItemKey(loc[w].value) IN
                /\ lease'[k] = NoSession
                /\ \A j \in Keys \ {k} : lease'[j] = lease[j]
                /\ pc'[w] = "idle" /\ loc'[w] = NoLoc
                /\ asserted' = asserted
                /\ \A u \in Workers \ {w} : pc'[u] = pc[u] /\ loc'[u] = loc[u]]_vars

\* w1's complete(b'a') has removed its entry and is about to issue the DEL,
\* while the key is held by w2's session and w2 works on an entry it leased
C14_Witness ==
    /\ pc["w1"] = "complete_delete" /\ loc["w1"].value = <<97>>
    /\ lease[ItemKey(<<97>>)] = Session("w2")
    /\ alive["w2"] /\ pc["w2"] = "idle" /\ Holds("w2")

(***************************************************************************)
(* C15: in every state where no error() call is in progress, the error     *)
(* list and the error-message list are index-aligned: they have the same   *)
(* length and the message at position i is the message of the error()      *)
(* call that pushed the item at position i.                                *)
(***************************************************************************)
C15_ErrorListsAligned ==
    (\A w \in Workers : ~InError(w)) =>
        /\ Len(error_messages) = Len(errors)
        /\ \A i \in 1..Len(errors) :
              error_messages[i].msg = MsgBytes(MsgOf(errors[i].by))

(***************************************************************************)
(* C16: the assertion of error(), that the length replied by the push onto *)
(* the error list equals the length replied by the push onto the           *)
(* error-message list, fails in no error() call of any worker.             *)
(***************************************************************************)
C16_AssertionNeverFails == asserted = {}

\* worker w crashed inside lease(), after the pop and before the SETEX
Orphaned(w) == ~alive[w] /\ pc[w] = "lease_setex"
\* history: no other put carried the bytes of entry id
UniqueBytes(id) == \A j \in 1..Len(putLog) : putLog[j] = putLog[id] => j = id

\* the item of a crashed lease() is not pending, and has no lease key
OrphanHasNoLease(w) ==
    Orphaned(w) =>
       /\ loc[w].item.id \notin Ids(main)
       /\ (loc[w].item.id \in Ids(processing) /\ UniqueBytes(loc[w].item.id))
          => lease[ItemKey(loc[w].item.val)] = NoSession

ErrorStep(w) ==
    \/ pc[w] = "idle" /\ pc'[w] = "error_lpush_errors"
    \/ pc[w] = "error_lpush_errors" /\ pc'[w] = "error_lpush_msgs"
    \/ pc[w] = "error_lpush_msgs" /\ pc'[w] = "idle"

(***************************************************************************)
(* C18: no command of error() creates, deletes or changes a lease key:     *)
(* every key, that of the item's content hash included, has the same owner *)
(* session after the command as before it.  (The keys go by their expiry   *)
(* or by the DEL of a complete() only, as C13 and C14 have it.)            *)
(***************************************************************************)
C18_ErrorLeavesLeaseKeys ==
    [][\A w \in Workers :
          ErrorStep(w) => lease' = lease]_vars

\* a worker's error(b'a') is over: the value is in the error list and in no
\* other list, and the lease key that the worker wrote when it leased the
\* value is still there, with the worker's session
C18_Witness ==
    \E w \in Workers :
       /\ errors = <<[val |-> <<97>>, by |-> w]>>
       /\ error_messages = <<[msg |-> MsgBytes(MsgOf(w))]>>
       /\ ~Has(processing, <<97>>) /\ ~Has(main, <<97>>)
       /\ pc[w] = "idle" /\ alive[w]
       /\ lease[ItemKey(<<97>>)] = Session(w)

\* worker w's lease() moves an entry from pending to processing in this step
LeaseMoves(w) ==
    /\ Len(leaseLog') > Len(leaseLog)
    /\ leaseLog'[Len(leaseLog')].by = w

(***************************************************************************)
(* C19: for every value that can be put, the empty byte sequence included, *)
(* a lease() that moves the item from pending to processing goes on to     *)
(* write the lease record for it, and what it returns then is the item,    *)
(* which is not the None of 'no item available'.                           *)
(***************************************************************************)
C19_EveryValueGetsALease ==
    [][\A w \in Workers :
          /\ LeaseMoves(w) =>
                /\ pc'[w] = "lease_setex"
                /\ loc'[w].item = processing'[1]
          /\ pc[w] = "lease_setex" /\ pc'[w] = "idle" =>
                /\ lease'[ItemKey(loc[w].item.val)] = Session(w)
                /\ ~IsNone(ReturnedItem(w))]_vars

\* no worker has crashed and no error() call is in progress
Quiet == \A w \in Workers : alive[w] /\ ~InError(w)
\* the entries accounted for: pending, processing, error list, completed
Accounted ==
    Len(main) + Len(processing) + Len(errors) + Cardinality(completed)
\* history: no bytes were put twice
UniquePuts == \A i, j \in 1..Len(putLog) : putLog[i] = putLog[j] => i = j

(***************************************************************************)
(* C20 as stated: with no crash and no error() call in progress, the       *)
(* number of items put equals pending + processing + error list + removed  *)
(* by complete(), also when equal bytes were put more than once.           *)
(***************************************************************************)
C20_AsStated == Quiet => Len(putLog) = Accounted

(***************************************************************************)
(* C20: with no crash and no error() call in progress, the items in the    *)
(* pending, processing and error lists and those removed by complete() are *)
(* never more than the items put, and are exactly as many when no bytes    *)
(* were put twice.                                                         *)
(***************************************************************************)
C20_ConservationOfUniqueItems ==
    Quiet => /\ Accounted <= Len(putLog)
             /\ UniquePuts => Accounted = Len(putLog)

\* two different items were put; one went to the error list, the other was
\* completed
C20_Witness ==
    /\ Quiet /\ UniquePuts
    /\ Len(putLog) = 2 /\ Len(errors) = 1 /\ Cardinality(completed) = 1
    /\ main = <<>> /\ processing = <<>>
====
